---- MODULE Spec2Model ----
(***************************************************************************)
(* terminal_donut (src/main.cpp): a depth-composited character buffer, the *)
(* torus rasterizer that fills it, the compositor that resamples it onto   *)
(* the terminal grid, and the frame loop of main() that sequences them.    *)
(*                                                                         *)
(* Numbers.  The program computes in IEEE-754 binary32 (float).  A float   *)
(* is modelled as <<m, e>>, the value m * 2^e, with m = 0 (and e = 0) or   *)
(* 2^23 <= |m| < 2^24; +, * and / round to nearest, ties to even, as the   *)
(* hardware does.  Exponent overflow and subnormals are not modelled: no   *)
(* value of the program comes near them.  Infinity and NaN appear only     *)
(* where the code divides by a zero float; those places are modelled at    *)
(* the call site.                                                          *)
(*                                                                         *)
(* Angles.  cos and sin are modelled on the quarter-turn grid only, where  *)
(* they are exactly -1, 0 or 1; an angle is a number of quarter turns.     *)
(***************************************************************************)
EXTENDS Integers, Sequences, FiniteSets, TLC

VARIABLES
    pc,        \* position of main(): "poll", "resize", ..., or "idle" outside the loop
    key,       \* ch: the key the last getch() returned
    lastRows,  \* main: lastRows
    lastCols,  \* main: lastCols
    fbW,       \* main: fbW
    fbH,       \* main: fbH
    fb,        \* main: fb, the FrameBuffer
    Ax,        \* main: Ax, in quarter turns (mod 4)
    Ay,        \* main: Ay, in quarter turns (mod 4)
    si,        \* renderTorus: position in the theta/phi loops (sample index)
    shown,     \* what the last blitVirtualToCurses did: size read, view, mvaddch calls
    restored,  \* TRUE once endwin() has run
    op,        \* the last two operations applied (buffer and pure-function checks)
    arg,       \* the argument of the last operation
    written,   \* samples that reached FrameBuffer::set since the last clear
    acc,       \* vector indices the last FrameBuffer::set touched
    res        \* the result of the last pure function applied

vars == <<pc, key, lastRows, lastCols, fbW, fbH, fb, Ax, Ay, si, shown,
          restored, op, arg, written, acc, res>>

-----------------------------------------------------------------------------
(* binary32 arithmetic *)
(* An operator of the form Only({e(x, y) : x \in {a}, y \in {b}}) is e(a, b) *)
(* with each argument evaluated once.                                      *)

Only(S) == CHOOSE r \in S : TRUE

P23 == 8388608
P24 == 16777216
P12 == 4096
P21 == 2097152

RECURSIVE Pow2(_)
Pow2(n) == IF n <= 0 THEN 1 ELSE 2 * Pow2(n - 1)

Abs(n) == Only({IF x < 0 THEN -x ELSE x : x \in {n}})
Sgn(n) == Only({IF x < 0 THEN -1 ELSE IF x > 0 THEN 1 ELSE 0 : x \in {n}})

\* C++ integer division: the quotient truncated toward zero.
TruncDiv(a, b) == Only({Sgn(x) * Sgn(y) * (Abs(x) \div Abs(y)) : x \in {a}, y \in {b}})

FZero == <<0, 0>>

RECURSIVE NormUp(_, _)
NormUp(m, e) == IF m >= P23 THEN <<m, e>> ELSE NormUp(2 * m, e - 1)

RECURSIVE BitsOver(_)
\* how many low bits of s >= 2^23 must go to leave 24
BitsOver(s) == IF s < P24 THEN 0 ELSE 1 + BitsOver(s \div 2)

\* s * 2^e (s > 0) rounded to 24 bits, nearest, ties to even.  When bits
\* below s were already dropped, the caller has or-ed a sticky bit into
\* s's lowest bit and left at least two bits below the rounding position.
RoundNorm(s, e) ==
    Only({IF x < P24 THEN NormUp(x, y)
          ELSE Only({LET q  == x \div d
                         r  == x % d
                     IN  Only({IF m = P24 THEN <<P23, y + k + 1>> ELSE <<m, y + k>> :
                               m \in {IF r > d \div 2 \/ (r = d \div 2 /\ q % 2 = 1)
                                      THEN q + 1 ELSE q}}) :
                     k \in {BitsOver(x)}, d \in {Pow2(BitsOver(x))}}) :
          x \in {s}, y \in {e}})

Sticky(q, lost) == Only({IF lost /\ x % 2 = 0 THEN x + 1 ELSE x : x \in {q}})

Signed(sign, f) == Only({<<sign * x[1], x[2]>> : x \in {f}})

\* static_cast<float>(int), |n| < 2^24: exact
FromInt(n) ==
    Only({IF x = 0 THEN FZero ELSE Signed(Sgn(x), NormUp(Abs(x), 0)) : x \in {n}})

FNeg(a) == Only({<<-x[1], x[2]>> : x \in {a}})

\* the 48-bit product of two 24-bit numbers, as <<high 24 bits, low 24 bits>>
Product(ma, mb) ==
    Only({Only({<<h1 * h2 + cross \div P12 + low \div P24, low % P24>> :
                low \in {l1 * l2 + (cross % P12) * P12}}) :
          h1 \in {ma \div P12}, l1 \in {ma % P12},
          h2 \in {mb \div P12}, l2 \in {mb % P12},
          cross \in {(ma \div P12) * (mb % P12) + (ma % P12) * (mb \div P12)}})

FMul(a, b) ==
    Only({IF x[1] = 0 \/ y[1] = 0 THEN FZero
          ELSE Only({Signed(Sgn(x[1]) * Sgn(y[1]),
                            RoundNorm(Sticky(p[1] * 8 + p[2] \div P21, p[2] % P21 # 0),
                                      x[2] + y[2] + 21)) :
                     p \in {Product(Abs(x[1]), Abs(y[1]))}}) :
          x \in {a}, y \in {b}})

RECURSIVE DivBits(_, _, _, _)
\* long division: n more quotient bits of r / d, appended to q
DivBits(r, d, q, n) ==
    IF n = 0 THEN <<q, r>>
    ELSE IF r >= d THEN DivBits(2 * (r - d), d, 2 * q + 1, n - 1)
         ELSE DivBits(2 * r, d, 2 * q, n - 1)

\* a / b, b # 0
FDiv(a, b) ==
    Only({IF x[1] = 0 THEN FZero
          ELSE Only({Signed(Sgn(x[1]) * Sgn(y[1]),
                            RoundNorm(Sticky(qr[1], qr[2] # 0), x[2] - y[2] - 26)) :
                     qr \in {DivBits(Abs(x[1]), Abs(y[1]), 0, 27)}}) :
          x \in {a}, y \in {b}})

\* big + small, the exponent of big being the larger (or equal)
AddOrdered(big, small) ==
    Only({Only({IF sum = 0 THEN FZero
                ELSE Signed(Sgn(sum), RoundNorm(Abs(sum), big[2] - 3)) :
                sum \in {big[1] * 8 + Sgn(small[1]) *
                            (IF d >= 27 THEN 1
                             ELSE Sticky(sm8 \div Pow2(d), sm8 % Pow2(d) # 0))}}) :
          d \in {big[2] - small[2]}, sm8 \in {Abs(small[1]) * 8}})

FAdd(a, b) ==
    Only({IF x[1] = 0 THEN y
          ELSE IF y[1] = 0 THEN x
          ELSE IF x[2] >= y[2] THEN AddOrdered(x, y) ELSE AddOrdered(y, x) :
          x \in {a}, y \in {b}})

FSub(a, b) == FAdd(a, FNeg(b))

\* a < b
FLess(a, b) ==
    Only({IF Sgn(x[1]) # Sgn(y[1]) THEN Sgn(x[1]) < Sgn(y[1])
          ELSE IF x[1] = 0 THEN FALSE
          ELSE IF x[1] > 0 THEN x[2] < y[2] \/ (x[2] = y[2] /\ x[1] < y[1])
          ELSE x[2] > y[2] \/ (x[2] = y[2] /\ x[1] < y[1]) :
          x \in {a}, y \in {b}})

\* std::max(a, b) is (a < b) ? b : a; std::min(a, b) is (b < a) ? b : a
FMax(a, b) == Only({IF FLess(x, y) THEN y ELSE x : x \in {a}, y \in {b}})
FMin(a, b) == Only({IF FLess(y, x) THEN y ELSE x : x \in {a}, y \in {b}})

\* static_cast<int>(float): toward zero (the value is within int's range)
FTrunc(a) ==
    Only({IF x[2] >= 0 THEN x[1] * Pow2(x[2])
          ELSE IF x[2] <= -24 THEN 0
          ELSE Sgn(x[1]) * (Abs(x[1]) \div Pow2(-x[2])) : x \in {a}})

\* static_cast<int>(std::round(float)): nearest, halves away from zero
FRound(a) ==
    Only({IF x[2] >= 0 THEN x[1] * Pow2(x[2])
          ELSE IF x[2] <= -25 THEN 0
          ELSE Sgn(x[1]) * ((Abs(x[1]) + Pow2(-x[2] - 1)) \div Pow2(-x[2])) :
          x \in {a}})

RECURSIVE SqrtBits(_, _, _, _)
\* digit-by-digit square root: the pairs i-1, ..., 0 of rad, then zeros down to pair -14
SqrtBits(rad, i, root, rem) ==
    IF i = -14 THEN <<root, rem>>
    ELSE LET pair == IF i > 0 THEN (rad \div Pow2(2 * (i - 1))) % 4 ELSE 0
             r    == 4 * rem + pair
             t    == 4 * root + 1
         IN  IF r >= t THEN SqrtBits(rad, i - 1, 2 * root + 1, r - t)
             ELSE SqrtBits(rad, i - 1, 2 * root, r)

\* std::sqrt(a), a >= 0
FSqrt(a) ==
    Only({IF x[1] = 0 THEN FZero
          ELSE Only({RoundNorm(Sticky(rr[1], rr[2] # 0),
                               (IF x[2] % 2 = 1 THEN x[2] - 1 ELSE x[2]) \div 2 - 14) :
                     rr \in {SqrtBits(IF x[2] % 2 = 1 THEN 2 * x[1] ELSE x[1], 13, 0, 0)}}) :
          x \in {a}})

FOne  == <<P23, -23>>
FTwo  == <<P23, -22>>
FHalf == <<P23, -24>>

IntMax == 2147483647
IntMin == -IntMax - 1

\* static_cast<int> of a float that no int holds is undefined; these are
\* the values builds produce (x86 cvttss2si: INT_MIN; AArch64 fcvtzs: 0 for
\* NaN, INT_MAX for +infinity).
NaNCast == {IntMin, 0}
InfCast == {IntMin, IntMax}

\* std::max(a, b) and std::clamp(v, lo, hi) on int
IMax(a, b) == Only({IF x < y THEN y ELSE x : x \in {a}, y \in {b}})
IClamp(v, lo, hi) ==
    Only({IF x < lo THEN lo ELSE IF hi < x THEN hi ELSE x : x \in {v}})

-----------------------------------------------------------------------------
(* Vec3 and the rotations *)

Vec3(x, y, z) == [x |-> x, y |-> y, z |-> z]

\* std::cos, std::sin at a whole number of quarter turns
Cos(q) == FromInt(CASE q % 4 = 0 -> 1 [] q % 4 = 2 -> -1 [] OTHER -> 0)
Sin(q) == FromInt(CASE q % 4 = 1 -> 1 [] q % 4 = 3 -> -1 [] OTHER -> 0)

rotateX(v, a) ==
    Only({Vec3(u.x, FSub(FMul(c, u.y), FMul(s, u.z)), FAdd(FMul(s, u.y), FMul(c, u.z))) :
          u \in {v}, c \in {Cos(a)}, s \in {Sin(a)}})

rotateY(v, a) ==
    Only({Vec3(FAdd(FMul(c, u.x), FMul(s, u.z)), u.y,
               FAdd(FMul(FNeg(s), u.x), FMul(c, u.z))) :
          u \in {v}, c \in {Cos(a)}, s \in {Sin(a)}})

dot(a, b) ==
    Only({FAdd(FAdd(FMul(u.x, v.x), FMul(u.y, v.y)), FMul(u.z, v.z)) :
          u \in {a}, v \in {b}})

normalize(v) ==
    Only({Only({IF FLess(FZero, m) THEN Vec3(FDiv(u.x, m), FDiv(u.y, m), FDiv(u.z, m))
                ELSE Vec3(FZero, FZero, FZero) :
                m \in {FSqrt(dot(u, u))}}) :
          u \in {v}})

-----------------------------------------------------------------------------
(* std::vector: n elements; element i holds at[i] where that is defined and *)
(* the value of the last fill (or of construction) elsewhere.               *)

VecNew(n, v) == [n |-> n, fill |-> v, at |-> [i \in {} |-> v]]

\* std::fill(begin(), end(), v)
VecFill(vec, v) == VecNew(vec.n, v)

VecHas(vec, i) == i \in 0..(vec.n - 1)

VecGet(vec, i) == IF i \in DOMAIN vec.at THEN vec.at[i] ELSE vec.fill

VecSet(vec, i, v) ==
    [vec EXCEPT !.at =
        [j \in (DOMAIN vec.at \ {i}) \cup (IF v = vec.fill THEN {} ELSE {i}) |->
            IF j = i THEN v ELSE vec.at[j]]]

-----------------------------------------------------------------------------
(* FrameBuffer *)

Blank == " "

\* -1e9f = -15625000 * 2^6
Sentinel == <<-15625000, 6>>

FrameBuffer(W, H) ==
    [w |-> W, h |-> H, chars |-> VecNew(W * H, Blank), depth |-> VecNew(W * H, Sentinel)]

clear(f) ==
    [f EXCEPT !.chars = VecFill(f.chars, Blank), !.depth = VecFill(f.depth, Sentinel)]

SetIdx(f, x, y) == y * f.w + x

\* a cell keeps the first sample it takes
setFirstWins(f, x, y, invZ, c) ==
    Only({IF VecHas(f.depth, idx) /\ VecGet(f.depth, idx) = Sentinel
          THEN [f EXCEPT !.depth = VecSet(f.depth, idx, invZ),
                         !.chars = VecSet(f.chars, idx, c)]
          ELSE f :
          idx \in {SetIdx(f, x, y)}})

\* FrameBuffer::set.  An idx outside the vectors is undefined behaviour; it
\* is never reached, because renderTorus clips before it calls set.
set(f, x, y, invZ, c) ==
    Only({IF VecHas(f.depth, idx) /\ FLess(VecGet(f.depth, idx), invZ)
          THEN [f EXCEPT !.depth = VecSet(f.depth, idx, invZ),
                         !.chars = VecSet(f.chars, idx, c)]
          ELSE f :
          idx \in {SetIdx(f, x, y)}})

get(f, x, y) == VecGet(f.chars, y * f.w + x)

-----------------------------------------------------------------------------
(* renderTorus *)

R_major == FOne
R_minor == FHalf
\* a camera inside the torus' reach
K2Close == FOne

K2 == FromInt(3)
xCellAspect == FTwo
shades == <<" ", ".", ":", "-", "=", "+", "*", "#", "%", "@">>
shadeMax == Len(shades) - 1
light == normalize(Vec3(FNeg(FHalf), FHalf, FNeg(FOne)))

K1(f) == FMul(FDiv(FromInt(3), FromInt(4)),
              FMin(FromInt(f.h), FDiv(FromInt(f.w), FTwo)))

\* the theta and phi loops, one quarter turn a step; sample i is
\* theta = i \div 4 (outer loop), phi = i % 4 (inner loop)
Thetas == 0..3
Phis == 0..3
NSamples == Cardinality(Thetas) * Cardinality(Phis)
ThetaOf(i) == i \div Cardinality(Phis)
PhiOf(i) == i % Cardinality(Phis)

\* lines 82-83 and 87: the rotated torus point
Point(ax, ay, theta, phi) ==
    LET ct == Cos(theta)
        st == Sin(theta)
        cp == Cos(phi)
        sp == Sin(phi)
        circle == FAdd(R_major, FMul(R_minor, ct))
        pObj == Vec3(FMul(circle, cp), FMul(circle, sp), FMul(R_minor, st))
    IN  rotateY(rotateX(pObj, ax), ay)

\* lines 84 and 88: the rotated unit normal
Normal(ax, ay, theta, phi) ==
    LET ct == Cos(theta)
        st == Sin(theta)
        cp == Cos(phi)
        sp == Sin(phi)
        nObj == Vec3(FMul(FMul(R_minor, ct), cp), FMul(FMul(R_minor, ct), sp),
                     FMul(R_minor, st))
    IN  normalize(rotateY(rotateX(nObj, ax), ay))

\* line 91: K2 + p.z
Denominator(ax, ay, theta, phi) == FAdd(K2, Point(ax, ay, theta, phi).z)

\* lines 101-102: the index into shades for dot(n, light) = d
\* the luminance is rounded to the nearest index
ShadeIdxRounded(d) ==
    Only({IClamp(FRound(FMul(lum, FromInt(shadeMax))), 0, shadeMax) :
          lum \in {FMax(FZero, d)}})

\* lines 101-102
ShadeIdx(d) ==
    Only({IClamp(FTrunc(FMul(lum, FromInt(shadeMax))), 0, shadeMax) :
          lum \in {FMax(FZero, d)}})

\* lines 75-103: the sample of (theta, phi): its cell, inverse depth and glyph
Sample(f, ax, ay, theta, phi) ==
    Only({LET x_proj == FMul(p.x, invZ)
              y_proj == FMul(p.y, invZ)
              x == FTrunc(FAdd(FMul(FromInt(f.w), FHalf),
                               FMul(FMul(k1, xCellAspect), x_proj)))
              y == FTrunc(FSub(FMul(FromInt(f.h), FHalf), FMul(k1, y_proj)))
          IN  [x |-> x, y |-> y, invZ |-> invZ,
               ch |-> shades[ShadeIdx(dot(n, light)) + 1]] :
          p \in {Point(ax, ay, theta, phi)},
          n \in {Normal(ax, ay, theta, phi)},
          invZ \in {FDiv(FOne, Denominator(ax, ay, theta, phi))},
          k1 \in {K1(f)}})

\* line 98
\* the clip lets a coordinate equal to the dimension through
ClippedPastEdge(f, x, y) == x < 0 \/ x > f.w \/ y < 0 \/ y > f.h

Clipped(f, x, y) == x < 0 \/ x >= f.w \/ y < 0 \/ y >= f.h

\* no depth test: a cell keeps the last sample it takes
lastWriteWins(f, x, y, invZ, c) ==
    IF Clipped(f, x, y) THEN f
    ELSE [f EXCEPT !.depth = VecSet(f.depth, SetIdx(f, x, y), invZ),
                   !.chars = VecSet(f.chars, SetIdx(f, x, y), c)]

\* lines 98 and 105: the write the rasterizer does for one sample
depthTestedWrite(f, x, y, invZ, c) ==
    IF Clipped(f, x, y) THEN f ELSE set(f, x, y, invZ, c)

RECURSIVE RenderFrom(_, _, _, _)
RenderFrom(f, ax, ay, i) ==
    IF i >= NSamples THEN f
    ELSE Only({RenderFrom(depthTestedWrite(f, s.x, s.y, s.invZ, s.ch), ax, ay, i + 1) :
               s \in {Sample(f, ax, ay, ThetaOf(i), PhiOf(i))}})

\* renderTorus without its clear
renderOntoOld(f, ax, ay) == RenderFrom(f, ax, ay, 0)

renderTorus(f, ax, ay) == RenderFrom(clear(f), ax, ay, 0)

-----------------------------------------------------------------------------
(* main: the size of the render buffer *)

baseW == 160
baseH == 90

\* 1.15f: the float nearest 1.15
overscan == FDiv(FromInt(115), FromInt(100))

\* lines 148 and 170
Aspect(rows, cols) ==
    IF rows > 0 THEN FDiv(FromInt(cols), FromInt(rows)) ELSE FOne

\* lines 149 and 171
FbW(rows, cols) ==
    FTrunc(FMul(FMul(FromInt(baseW), FMax(FOne, Aspect(rows, cols))), overscan))

\* lines 150 and 172.  With cols = 0 and rows > 0 the aspect is 0, 1.0f /
\* aspect is +infinity, and so is the product the cast is applied to.
FbHs(rows, cols) ==
    IF Aspect(rows, cols) = FZero THEN InfCast
    ELSE {FTrunc(FMul(FMul(FromInt(baseH),
                           FMax(FOne, FDiv(FOne, Aspect(rows, cols)))), overscan))}

-----------------------------------------------------------------------------
(* blitVirtualToCurses *)

\* lines 115-117
BlitScale(f, rows, cols) ==
    FMax(FDiv(FromInt(cols), FromInt(f.w)), FDiv(FromInt(rows), FromInt(f.h)))

\* line 119, for s > 0
InvS(f, rows, cols) == FDiv(FOne, BlitScale(f, rows, cols))

\* lines 120-121.  s = 0 (rows = cols = 0) makes invS +infinity and
\* n * invS = 0 * infinity a NaN, whose cast is undefined.
ViewDims(f, rows, cols, n) ==
    IF BlitScale(f, rows, cols) = FZero THEN {IMax(1, v) : v \in NaNCast}
    ELSE {IMax(1, FRound(FMul(FromInt(n), InvS(f, rows, cols))))}

\* lines 120-123
Views(f, rows, cols) ==
    {[viewW |-> vw, viewH |-> vh,
      x0 |-> TruncDiv(f.w - vw, 2), y0 |-> TruncDiv(f.h - vh, 2)] :
        vw \in ViewDims(f, rows, cols, cols), vh \in ViewDims(f, rows, cols, rows)}

\* the offset is rounded to the nearest cell
SrcCoordRounded(f, rows, cols, origin, t, size) ==
    IClamp(origin + FRound(FMul(FromInt(t), InvS(f, rows, cols))), 0, size - 1)

\* lines 130 and 132: the buffer coordinate of terminal coordinate t
SrcCoord(f, rows, cols, origin, t, size) ==
    IClamp(origin + FTrunc(FMul(FromInt(t), InvS(f, rows, cols))), 0, size - 1)

\* lines 131-135: the mvaddch calls of terminal row y, in order
RowCalls(f, rows, cols, v, y) ==
    Only({[k \in 1..cols |->
            Only({[y |-> y, x |-> k - 1, vx |-> vx, vy |-> vy,
                   c |-> IF get(f, vx, vy) = "" THEN " " ELSE get(f, vx, vy)] :
                  vx \in {SrcCoord(f, rows, cols, v.x0, k - 1, f.w)}})] :
          vy \in {SrcCoord(f, rows, cols, v.y0, y, f.h)}})

RECURSIVE BlitCalls(_, _, _, _, _)
\* lines 129-136: the mvaddch calls of rows y, y+1, ..., in order
BlitCalls(f, rows, cols, v, y) ==
    IF y >= rows THEN <<>>
    ELSE RowCalls(f, rows, cols, v, y) \o BlitCalls(f, rows, cols, v, y + 1)

\* what one blitVirtualToCurses does, the terminal being rows x cols
Blits(f, rows, cols) ==
    {[rows |-> rows, cols |-> cols, view |-> v,
      calls |-> BlitCalls(f, rows, cols, v, 0)] : v \in Views(f, rows, cols)}

\* nothing presented yet
NoBlit ==
    [rows |-> 0, cols |-> 0, view |-> [viewW |-> 0, viewH |-> 0, x0 |-> 0, y0 |-> 0],
     calls |-> <<>>]

-----------------------------------------------------------------------------
(* main *)

\* rad/s, in tenths; a tick of the clock is the time in which 0.1 rad/s
\* turns a quarter turn
spinX == 7
spinY == 11

\* elapsed ticks between two frames
MaxDt == 1

\* <<rows, cols>> that getmaxyx can report
TermSizes == {<<0, 0>>, <<3, 0>>, <<2, 3>>, <<3, 2>>}

\* what getch() can return: ERR, the quit keys, another key
Keys == {"ERR", "q", "Q", "x"}

Idle ==
    /\ op = <<>>
    /\ arg = "none"
    /\ written = {}
    /\ acc = {}
    /\ res = "none"

\* FrameBuffer(W, H) computes W*H in int.  Where that overflows, or H is
\* no size, the behaviour is undefined: builds wrap the product, and then
\* the vectors are empty under a height that is no height ("undefined":
\* every later use of the buffer is undefined too), or their construction
\* throws std::length_error, which nothing catches ("aborted").
SizeFits(W, H) == H > 0 /\ H <= IntMax \div W

\* lines 141-158
Init ==
    /\ \E sz \in TermSizes :
        /\ lastRows = sz[1]
        /\ lastCols = sz[2]
        /\ fbW = FbW(sz[1], sz[2])
        /\ \E hh \in FbHs(sz[1], sz[2]) :
            /\ fbH = hh
            /\ IF SizeFits(fbW, hh)
               THEN fb = FrameBuffer(fbW, hh) /\ pc = "poll"
               ELSE fb = FrameBuffer(0, 0) /\ pc \in {"undefined", "aborted"}
    /\ key = "ERR"
    /\ Ax = 0
    /\ Ay = 0
    /\ si = 0
    /\ shown = NoBlit
    /\ restored = FALSE
    /\ Idle

UnchangedIdle == UNCHANGED <<op, arg, written, acc, res>>

\* 'Q' is taken for any other key
PollLowercaseOnly ==
    /\ pc = "poll"
    /\ \E k \in Keys :
        /\ key' = k
        /\ pc' = IF k = "q" THEN "exit" ELSE "resize"
    /\ UNCHANGED <<lastRows, lastCols, fbW, fbH, fb, Ax, Ay, si, shown, restored>>
    /\ UnchangedIdle

\* lines 164-165
Poll ==
    /\ pc = "poll"
    /\ \E k \in Keys :
        /\ key' = k
        /\ pc' = IF k = "q" \/ k = "Q" THEN "exit" ELSE "resize"
    /\ UNCHANGED <<lastRows, lastCols, fbW, fbH, fb, Ax, Ay, si, shown, restored>>
    /\ UnchangedIdle

\* lines 167-175
DetectResize ==
    /\ pc = "resize"
    /\ \E sz \in TermSizes :
        IF sz[1] # lastRows \/ sz[2] # lastCols
        THEN /\ fbW' = FbW(sz[1], sz[2])
             /\ \E hh \in FbHs(sz[1], sz[2]) :
                 /\ fbH' = hh
                 /\ IF SizeFits(fbW', hh)
                    THEN /\ fb' = FrameBuffer(fbW', hh)
                         /\ lastRows' = sz[1]
                         /\ lastCols' = sz[2]
                         /\ pc' = "advance"
                    ELSE /\ pc' \in {"undefined", "aborted"}
                         /\ UNCHANGED <<fb, lastRows, lastCols>>
        ELSE /\ pc' = "advance"
             /\ UNCHANGED <<lastRows, lastCols, fbW, fbH, fb>>
    /\ UNCHANGED <<key, Ax, Ay, si, shown, restored>>
    /\ UnchangedIdle

\* lines 177-182
Advance ==
    /\ pc = "advance"
    /\ \E dt \in 0..MaxDt :
        /\ Ax' = (Ax + spinX * dt) % 4
        /\ Ay' = (Ay + spinY * dt) % 4
    /\ pc' = "clear"
    /\ UNCHANGED <<key, lastRows, lastCols, fbW, fbH, fb, si, shown, restored>>
    /\ UnchangedIdle

\* line 184, renderTorus line 58
RenderClear ==
    /\ pc = "clear"
    /\ fb' = clear(fb)
    /\ si' = 0
    /\ pc' = "raster"
    /\ UNCHANGED <<key, lastRows, lastCols, fbW, fbH, Ax, Ay, shown, restored>>
    /\ UnchangedIdle

\* a read between two rasterizer writes: the frame is handed to the
\* compositor after its first sample
RenderSampleEarlyBlit ==
    /\ pc = "raster"
    /\ \E s \in {Sample(fb, Ax, Ay, ThetaOf(si), PhiOf(si))} :
           fb' = depthTestedWrite(fb, s.x, s.y, s.invZ, s.ch)
    /\ si' = si + 1
    /\ pc' = "blit"
    /\ UNCHANGED <<key, lastRows, lastCols, fbW, fbH, Ax, Ay, shown, restored>>
    /\ UnchangedIdle

\* renderTorus lines 74-107: one pass of the inner loop's body
RenderSample ==
    /\ pc = "raster"
    /\ \E s \in {Sample(fb, Ax, Ay, ThetaOf(si), PhiOf(si))} :
           fb' = depthTestedWrite(fb, s.x, s.y, s.invZ, s.ch)
    /\ si' = si + 1
    /\ pc' = IF si + 1 >= NSamples THEN "blit" ELSE "raster"
    /\ UNCHANGED <<key, lastRows, lastCols, fbW, fbH, Ax, Ay, shown, restored>>
    /\ UnchangedIdle

\* line 185
Blit ==
    /\ pc = "blit"
    /\ \E sz \in TermSizes : shown' \in Blits(fb, sz[1], sz[2])
    /\ pc' = "sleep"
    /\ UNCHANGED <<key, lastRows, lastCols, fbW, fbH, fb, Ax, Ay, si, restored>>
    /\ UnchangedIdle

\* line 188
Sleep ==
    /\ pc = "sleep"
    /\ pc' = "poll"
    /\ UNCHANGED <<key, lastRows, lastCols, fbW, fbH, fb, Ax, Ay, si, shown, restored>>
    /\ UnchangedIdle

\* lines 190 and 54: return 0 runs ~CursesSession
Exit ==
    /\ pc = "exit"
    /\ restored' = TRUE
    /\ pc' = "done"
    /\ UNCHANGED <<key, lastRows, lastCols, fbW, fbH, fb, Ax, Ay, si, shown>>
    /\ UnchangedIdle

Next ==
    \/ Poll
    \/ DetectResize
    \/ Advance
    \/ RenderClear
    \/ RenderSample
    \/ Blit
    \/ Sleep
    \/ Exit

Spec == Init /\ [][Next]_vars

-----------------------------------------------------------------------------
(* The buffer on its own: clear and the rasterizer's depth-tested write     *)
(* with any sample, in any order.                                          *)

MainIdle ==
    /\ pc = "idle"
    /\ key = "ERR"
    /\ lastRows = 0
    /\ lastCols = 0
    /\ fbW = 0
    /\ fbH = 0
    /\ Ax = 0
    /\ Ay = 0
    /\ si = 0
    /\ restored = FALSE

UnchangedMain == UNCHANGED <<pc, key, lastRows, lastCols, fbW, fbH, Ax, Ay, si, restored>>

\* the last two operations
Push(o, name) == IF Len(o) < 2 THEN Append(o, name) ELSE <<o[2], name>>
Last(o) == IF Len(o) = 0 THEN "none" ELSE o[Len(o)]

\* <<W, H>>
BufSizes == {<<2, 1>>, <<1, 2>>}

\* inverse depths of the nearest and the farthest torus point, 1/1.5 and 1/4.5
SampleDepths == {FDiv(FTwo, FromInt(3)), FDiv(FTwo, FromInt(9))}

SampleGlyphs == {shades[1], shades[10]}

\* distinct samples written between two clears
MaxWritten == 3

\* the vector index set() touches for a sample, if the sample gets there
Touched(f, x, y) == IF Clipped(f, x, y) THEN {} ELSE {SetIdx(f, x, y)}

BufInit ==
    /\ \E sz \in BufSizes : fb = FrameBuffer(sz[1], sz[2])
    /\ shown = NoBlit
    /\ MainIdle
    /\ Idle

BufClear ==
    /\ fb' = clear(fb)
    /\ written' = {}
    /\ acc' = {}
    /\ op' = Push(op, "clear")
    /\ arg' = "none"
    /\ UNCHANGED <<shown, res>>
    /\ UnchangedMain

BufWrite ==
    /\ \E x \in -1..fb.w, y \in -1..fb.h, d \in SampleDepths, c \in SampleGlyphs :
        \E s \in {[x |-> x, y |-> y, invZ |-> d, ch |-> c]} :
            /\ Clipped(fb, x, y) \/ s \in written \/ Cardinality(written) < MaxWritten
            /\ fb' = depthTestedWrite(fb, x, y, d, c)
            /\ written' = IF Clipped(fb, x, y) THEN written ELSE written \cup {s}
            /\ acc' = Touched(fb, x, y)
            /\ arg' = s
    /\ op' = Push(op, "write")
    /\ UNCHANGED <<shown, res>>
    /\ UnchangedMain

BufNext ==
    \/ BufClear
    \/ BufWrite

SpecBuf == BufInit /\ [][BufNext]_vars

-----------------------------------------------------------------------------
(* Whole renderTorus calls on buffers left dirty by earlier calls and by   *)
(* stray writes, with clear calls in between.                              *)

\* <<W, H>>
RenderSizes == {<<4, 3>>, <<7, 2>>, <<184, 103>>}

\* <<Ax, Ay>> in quarter turns
RenderAngles == {<<0, 0>>, <<1, 0>>, <<2, 3>>}

\* a near "@" in the first cell and a far "." in the last
Scribbles(f) ==
    {[x |-> 0, y |-> 0, invZ |-> FDiv(FTwo, FromInt(3)), ch |-> shades[10]],
     [x |-> f.w - 1, y |-> f.h - 1, invZ |-> FDiv(FTwo, FromInt(9)), ch |-> shades[2]]}

RenderInit ==
    /\ \E sz \in RenderSizes : fb = FrameBuffer(sz[1], sz[2])
    /\ shown = NoBlit
    /\ MainIdle
    /\ Idle

Scribble ==
    /\ \E s \in Scribbles(fb) :
        /\ fb' = depthTestedWrite(fb, s.x, s.y, s.invZ, s.ch)
        /\ arg' = s
    /\ op' = Push(op, "write")
    /\ UNCHANGED <<written, acc, shown, res>>
    /\ UnchangedMain

ClearCall ==
    /\ fb' = clear(fb)
    /\ op' = Push(op, "clear")
    /\ arg' = "none"
    /\ UNCHANGED <<written, acc, shown, res>>
    /\ UnchangedMain

RenderCall ==
    /\ \E a \in RenderAngles :
        /\ fb' = renderTorus(fb, a[1], a[2])
        /\ arg' = [ax |-> a[1], ay |-> a[2]]
    /\ op' = Push(op, "render")
    /\ UNCHANGED <<written, acc, shown, res>>
    /\ UnchangedMain

RenderNext ==
    \/ Scribble
    \/ ClearCall
    \/ RenderCall

SpecRender == RenderInit /\ [][RenderNext]_vars

-----------------------------------------------------------------------------
(* The luminance quantizer on its own, on pairs of dot products.           *)

\* dot products are k / DotSteps
DotSteps == 12

Dots == {FDiv(FromInt(k), FromInt(DotSteps)) : k \in (-DotSteps)..(DotSteps + 2)}

ShadeInit ==
    /\ arg \in Dots \X Dots
    /\ res = "none"
    /\ op = <<>>
    /\ written = {}
    /\ acc = {}
    /\ fb = FrameBuffer(0, 0)
    /\ shown = NoBlit
    /\ MainIdle

Quantize ==
    /\ op = <<>>
    /\ res' = <<ShadeIdx(arg[1]), ShadeIdx(arg[2])>>
    /\ op' = <<"shade">>
    /\ UNCHANGED <<arg, written, acc, fb, shown>>
    /\ UnchangedMain

ShadeNext == Quantize

SpecShade == ShadeInit /\ [][ShadeNext]_vars

-----------------------------------------------------------------------------
(* The projection denominator on its own, for every sample and rotation.   *)

ProjInit ==
    /\ arg \in [ax : 0..3, ay : 0..3, theta : Thetas, phi : Phis]
    /\ res = "none"
    /\ op = <<>>
    /\ written = {}
    /\ acc = {}
    /\ fb = FrameBuffer(0, 0)
    /\ shown = NoBlit
    /\ MainIdle

Project ==
    /\ op = <<>>
    /\ res' = Denominator(arg.ax, arg.ay, arg.theta, arg.phi)
    /\ op' = <<"project">>
    /\ UNCHANGED <<arg, written, acc, fb, shown>>
    /\ UnchangedMain

ProjNext == Project

SpecProj == ProjInit /\ [][ProjNext]_vars

-----------------------------------------------------------------------------
(* The compositor on its own, for small terminals over rendered buffers.   *)

\* terminals are 0..MaxRows by 0..MaxCols
MaxRows == 4
MaxCols == 6

\* <<W, H>>; the last is the buffer of a terminal no wider than high
BlitBufSizes == {<<4, 3>>, <<7, 2>>, <<184, 103>>}

BlitInit ==
    /\ \E sz \in BlitBufSizes, a \in {<<0, 0>>, <<1, 0>>} :
        fb = renderTorus(FrameBuffer(sz[1], sz[2]), a[1], a[2])
    /\ arg \in [rows : 0..MaxRows, cols : 0..MaxCols]
    /\ shown = NoBlit
    /\ res = "none"
    /\ op = <<>>
    /\ written = {}
    /\ acc = {}
    /\ MainIdle

Present ==
    /\ op = <<>>
    /\ shown' \in Blits(fb, arg.rows, arg.cols)
    /\ op' = <<"blit">>
    /\ UNCHANGED <<arg, written, acc, fb, res>>
    /\ UnchangedMain

BlitNext == Present

SpecBlit == BlitInit /\ [][BlitNext]_vars

-----------------------------------------------------------------------------
(* The frame loop: properties of Spec                                      *)

CharAt(f, i) == VecGet(f.chars, i)
DepthAt(f, i) == VecGet(f.depth, i)
Cells(f) == 0..(f.w * f.h - 1)

\* the steps of one iteration, in the order of the loop body
LoopOrder ==
    {<<"poll", "resize">>, <<"resize", "advance">>, <<"advance", "clear">>,
     <<"clear", "raster">>, <<"raster", "blit">>, <<"blit", "sleep">>,
     <<"sleep", "poll">>}

\* the ways out of the loop: the quit key, and the resize that ends the
\* process (C5)
LoopEnds ==
    {<<"poll", "exit">>, <<"exit", "done">>,
     <<"resize", "undefined">>, <<"resize", "aborted">>}

\* C4: every iteration runs poll, resize, advance, rasterize, composite,
\* sleep in this order.  The compositor reads only at its own step, and the
\* buffer it reads is the complete picture of the current angles on the
\* buffer of the current size: cleared and filled by all the samples in
\* this iteration.  The buffer is not re-created and the angles do not
\* move once rasterization has begun, and the compositor leaves the buffer
\* as it is.
C4_FrameOrder ==
    [][/\ pc' # pc => <<pc, pc'>> \in LoopOrder \cup LoopEnds
       /\ shown' # shown => pc = "blit"
       /\ pc = "blit" =>
            /\ fb.w = fbW /\ fb.h = fbH
            /\ fb = renderTorus(FrameBuffer(fbW, fbH), Ax, Ay)
            /\ fb' = fb
       /\ pc \in {"clear", "raster", "blit", "sleep"} =>
            /\ UNCHANGED <<fbW, fbH, lastRows, lastCols, Ax, Ay>>
            /\ fb'.w = fb.w /\ fb'.h = fb.h]_vars

\* a frame of turned angles with drawn glyphs has been presented
C4_Witness ==
    /\ pc = "sleep"
    /\ Len(shown.calls) > 0
    /\ DOMAIN fb.chars.at # {}
    /\ Ax # 0

\* C5 (as the specification states it): whatever size the terminal reports,
\* zero rows and zero columns included, the resize step goes on into the
\* frame with a buffer of positive, finite W and H.
C5_ResizeTotal ==
    [][pc = "resize" =>
        /\ pc' = "advance"
        /\ fbW' >= 1 /\ fbH' >= 1 /\ fbH' <= IntMax \div fbW'
        /\ fb'.w = fbW' /\ fb'.h = fbH'
        /\ fb'.chars.n = fbW' * fbH' /\ fb'.depth.n = fbW' * fbH']_vars

\* C6: a quit key ('q' or 'Q') read by the poll ends the loop there, before
\* the next frame begins; any other key, or no input, goes on into the
\* frame.  The quit path is left only at the poll, so a frame whose
\* rasterization has begun is rasterized to its last sample and presented
\* in full.  After the quit nothing touches buffer or screen, and the
\* process is done only with the terminal restored.
C6_QuitAtPoll ==
    [][/\ pc = "poll" /\ pc' # pc =>
            /\ key' \in {"q", "Q"} <=> pc' = "exit"
            /\ key' \notin {"q", "Q"} <=> pc' = "resize"
       /\ pc' = "exit" /\ pc # "exit" => pc = "poll"
       /\ pc \in {"clear", "raster"} /\ pc' # pc => pc' \in {"raster", "blit"}
       /\ pc' = "blit" /\ pc # "blit" => si' = NSamples
       /\ pc = "blit" /\ pc' # pc =>
            /\ pc' = "sleep"
            /\ Len(shown'.calls) = shown'.rows * shown'.cols
       /\ pc \in {"exit", "done"} =>
            /\ UNCHANGED <<fb, fbW, fbH, shown, Ax, Ay>>
            /\ pc' \in {"exit", "done"}
       /\ pc' = "done" => restored']_vars

\* quit after a frame has been presented: the process is done, the
\* terminal restored
C6_Witness ==
    /\ pc = "done"
    /\ restored
    /\ key \in {"q", "Q"}
    /\ Len(shown.calls) > 0

-----------------------------------------------------------------------------
(* The buffer: properties of SpecBuf and SpecRender                        *)

\* the samples of S that fall into cell i
SamplesAt(f, S, i) == {s \in S : SetIdx(f, s.x, s.y) = i}

\* C1: at every moment after a clear, each cell holds the greatest inverse
\* depth of the samples written to it since, with the glyph of a sample of
\* that depth; a cell nothing was written to holds the sentinel and a blank.
C1_DepthIsMax ==
    \A i \in Cells(fb) :
        \E S \in {SamplesAt(fb, written, i)} :
            IF S = {}
            THEN DepthAt(fb, i) = Sentinel /\ CharAt(fb, i) = Blank
            ELSE /\ \A s \in S : ~FLess(DepthAt(fb, i), s.invZ)
                 /\ \E s \in S : s.invZ = DepthAt(fb, i) /\ s.ch = CharAt(fb, i)

\* a cell has taken a near and a far sample of different glyphs, the far
\* one last
C1_Witness ==
    /\ Last(op) = "write"
    /\ \E s \in written, t \in written :
        /\ s.x = t.x /\ s.y = t.y
        /\ FLess(s.invZ, t.invZ)
        /\ s.ch # t.ch
        /\ arg = s

RECURSIVE WriteAll(_, _)
\* the samples of S written in one fixed order
WriteAll(f, S) ==
    IF S = {} THEN f
    ELSE Only({WriteAll(depthTestedWrite(f, s.x, s.y, s.invZ, s.ch), S \ {s}) :
               s \in {CHOOSE s \in S : TRUE}})

\* two samples of one cell share the cell's greatest inverse depth and
\* differ in glyph
Tie(f, S) ==
    \E s \in S, t \in S :
        /\ s.x = t.x /\ s.y = t.y
        /\ s.invZ = t.invZ
        /\ s.ch # t.ch
        /\ \A u \in S : u.x = s.x /\ u.y = s.y => ~FLess(s.invZ, u.invZ)

\* C2 (as the specification states it): a set of samples written in any
\* order gives the same grid, ties of depth included.
C2_AnyOrderSameGrid == fb = WriteAll(clear(fb), written)

\* C2: a set of samples written to a cleared buffer gives the same depths in
\* every order, and the same glyphs unless two samples of a cell share the
\* cell's greatest inverse depth and differ in glyph.
C2_OrderIndependent ==
    \E g \in {WriteAll(clear(fb), written)} :
        /\ fb.depth = g.depth
        /\ ~Tie(fb, written) => fb.chars = g.chars

\* a cell has taken a far and a near sample of different glyphs, the near
\* one last, and no cell has a tie
C2_Witness ==
    /\ Last(op) = "write"
    /\ ~Tie(fb, written)
    /\ \E s \in written, t \in written :
        /\ s.x = t.x /\ s.y = t.y
        /\ FLess(s.invZ, t.invZ)
        /\ s.ch # t.ch
        /\ arg = t

\* C3: a write of (x, y, invZ, glyph) replaces depth and glyph of cell
\* y*W + x exactly when 0 <= x < W, 0 <= y < H and invZ is strictly greater
\* than the depth stored there; in every other case it changes nothing.  It
\* changes no other cell and touches no index outside the W*H cells.
C3_WriteEffect ==
    [][Last(op') = "write" =>
        \E s \in {arg'} : \E i \in {s.y * fb.w + s.x} :
        \E inside \in {s.x >= 0 /\ s.x < fb.w /\ s.y >= 0 /\ s.y < fb.h} :
            /\ fb'.w = fb.w /\ fb'.h = fb.h
            /\ fb'.chars.n = fb.chars.n /\ fb'.depth.n = fb.depth.n
            /\ acc' \subseteq Cells(fb)
            /\ inside => acc' = {i}
            /\ DOMAIN fb'.chars.at \subseteq Cells(fb)
            /\ DOMAIN fb'.depth.at \subseteq Cells(fb)
            /\ \A j \in Cells(fb) :
                IF inside /\ j = i /\ FLess(DepthAt(fb, i), s.invZ)
                THEN DepthAt(fb', j) = s.invZ /\ CharAt(fb', j) = s.ch
                ELSE DepthAt(fb', j) = DepthAt(fb, j) /\ CharAt(fb', j) = CharAt(fb, j)]_vars

\* a sample one past the right edge has been offered to a buffer that
\* holds samples
C3_Witness ==
    /\ Last(op) = "write"
    /\ arg.x = fb.w
    /\ arg.y \in 0..(fb.h - 1)
    /\ acc = {}
    /\ written # {}

\* C7: clear() makes every cell a blank with the sentinel depth and keeps
\* the dimensions, and a second clear changes nothing.  renderTorus clears
\* first, so that its result is that of rendering the same W, H, Ax, Ay
\* into a new buffer, whatever the buffer held before; rendering the same
\* angles again gives the same buffer.
C7_ClearAndRender ==
    [][/\ Last(op') = "clear" =>
            /\ fb'.w = fb.w /\ fb'.h = fb.h
            /\ fb'.chars.n = fb.w * fb.h /\ fb'.depth.n = fb.w * fb.h
            /\ \A j \in Cells(fb) : CharAt(fb', j) = Blank /\ DepthAt(fb', j) = Sentinel
            /\ clear(fb') = fb'
       /\ Last(op') = "render" =>
            /\ fb' = renderTorus(FrameBuffer(fb.w, fb.h), arg'.ax, arg'.ay)
            /\ renderTorus(fb', arg'.ax, arg'.ay) = fb']_vars

\* a torus has been rendered into a buffer that a stray write had dirtied
C7_Witness ==
    /\ op = <<"write", "render">>
    /\ DOMAIN fb.chars.at # {}

-----------------------------------------------------------------------------
(* Shading, projection and compositing: properties of SpecShade, SpecProj  *)
(* and SpecBlit                                                            *)

FLeq(a, b) == ~FLess(b, a)

\* C8: with lum = max(0, dot) the shade index is floor(lum * 9) held to
\* 0..9: it is always one of the 10 glyphs of the ramp, it is 0, the blank,
\* whenever dot <= 0, and it never decreases when dot increases.
C8_ShadeIndex ==
    op = <<"shade">> =>
        /\ \A k \in {1, 2} :
            \E d \in {arg[k]}, i \in {res[k]} :
            \E p \in {FMul(FMax(FZero, d), FromInt(9))} :
                /\ i \in 0..9
                /\ i + 1 \in DOMAIN shades
                /\ FLeq(d, FZero) => i = 0 /\ shades[i + 1] = Blank
                /\ IF FLess(p, FromInt(10))
                   THEN FLeq(FromInt(i), p) /\ FLess(p, FromInt(i + 1))
                   ELSE i = 9
        /\ FLeq(arg[1], arg[2]) => res[1] <= res[2]

\* a surface turned away from the light and one lit in full
C8_Witness ==
    /\ op = <<"shade">>
    /\ FLess(arg[1], FZero)
    /\ arg[2] = FOne
    /\ res = <<0, 9>>

\* C10 (as the specification states it): the projection denominator
\* K2 + p.z is never below the camera distance K2.
C10_AtLeastCameraDistance == op = <<"project">> => FLeq(K2, res)

\* C10: the projection denominator K2 + p.z can be below K2, but it is
\* greater than 1, so strictly positive and never zero.  On the quarter-turn
\* samples, where the arithmetic is exact, it lies between
\* K2 - (R_major + R_minor) = 1.5 and K2 + (R_major + R_minor) = 4.5.
C10_DenominatorPositive ==
    op = <<"project">> =>
        /\ FLess(FZero, res)
        /\ FLess(FOne, res)
        /\ FLeq(FSub(K2, FAdd(R_major, R_minor)), res)
        /\ FLeq(res, FAdd(K2, FAdd(R_major, R_minor)))

\* the torus point nearest the camera: the denominator is 1.5, below K2
C10_Witness ==
    /\ op = <<"project">>
    /\ res = FSub(K2, FAdd(R_major, R_minor))
    /\ FLess(res, K2)

\* the terminal cell of the k-th mvaddch when cells are written once each,
\* row by row
CellOf(k, cols) == [y |-> (k - 1) \div cols, x |-> (k - 1) % cols]

\* C9 (as the specification states it): terminal cell (x, y) shows buffer
\* cell (clamp(x0 + round(x / s), 0, W-1), clamp(y0 + round(y / s), 0, H-1))
\* with s = max(cols / W, rows / H), x0 = (W - round(cols / s)) / 2 and
\* y0 = (H - round(rows / s)) / 2.
C9_RoundedMapping ==
    op = <<"blit">> /\ arg.rows + arg.cols > 0 =>
        \E s \in {FMax(FDiv(FromInt(arg.cols), FromInt(fb.w)),
                       FDiv(FromInt(arg.rows), FromInt(fb.h)))} :
        \E x0 \in {TruncDiv(fb.w - FRound(FDiv(FromInt(arg.cols), s)), 2)},
           y0 \in {TruncDiv(fb.h - FRound(FDiv(FromInt(arg.rows), s)), 2)} :
            \A k \in 1..Len(shown.calls) :
                \E c \in {shown.calls[k]} :
                    /\ c.vx = IClamp(x0 + FRound(FDiv(FromInt(c.x), s)), 0, fb.w - 1)
                    /\ c.vy = IClamp(y0 + FRound(FDiv(FromInt(c.y), s)), 0, fb.h - 1)

\* C9: in single precision, with s = max(cols / W, rows / H) and
\* invS = 1 / s, terminal cell (x, y) shows buffer cell
\* (clamp(x0 + trunc(x * invS), 0, W-1), clamp(y0 + trunc(y * invS), 0, H-1))
\* where x0 = (W - viewW) / 2, y0 = (H - viewH) / 2,
\* viewW = max(1, round(cols * invS)) and viewH = max(1, round(rows * invS)).
\* Every read is inside the buffer, every terminal cell is written exactly
\* once, row by row, and the buffer is left as it is.  A terminal without
\* cells gets no write and causes no read.
C9_TruncatedMapping ==
    op = <<"blit">> =>
        /\ fb \in {renderTorus(FrameBuffer(fb.w, fb.h), a[1], a[2]) :
                     a \in {<<0, 0>>, <<1, 0>>}}
        /\ shown.rows = arg.rows /\ shown.cols = arg.cols
        /\ Len(shown.calls) = arg.rows * arg.cols
        /\ arg.rows + arg.cols > 0 =>
            \E inv \in {FDiv(FOne, FMax(FDiv(FromInt(arg.cols), FromInt(fb.w)),
                                        FDiv(FromInt(arg.rows), FromInt(fb.h))))} :
            \E vw \in {IMax(1, FRound(FMul(FromInt(arg.cols), inv)))},
               vh \in {IMax(1, FRound(FMul(FromInt(arg.rows), inv)))} :
            \E x0 \in {TruncDiv(fb.w - vw, 2)}, y0 \in {TruncDiv(fb.h - vh, 2)} :
                /\ shown.view = [viewW |-> vw, viewH |-> vh, x0 |-> x0, y0 |-> y0]
                /\ \A k \in 1..Len(shown.calls) :
                    \E c \in {shown.calls[k]} :
                        /\ [y |-> c.y, x |-> c.x] = CellOf(k, arg.cols)
                        /\ c.vx = IClamp(x0 + FTrunc(FMul(FromInt(c.x), inv)), 0, fb.w - 1)
                        /\ c.vy = IClamp(y0 + FTrunc(FMul(FromInt(c.y), inv)), 0, fb.h - 1)
                        /\ c.vx \in 0..(fb.w - 1)
                        /\ c.vy \in 0..(fb.h - 1)
                        /\ c.c = CharAt(fb, c.vy * fb.w + c.vx)

\* a presented terminal cell whose source column is not the rounded one,
\* and a cell that shows a drawn glyph
C9_Witness ==
    /\ op = <<"blit">>
    /\ \E k \in 1..Len(shown.calls) : shown.calls[k].c # Blank
    /\ \E k \in 1..Len(shown.calls) :
        \E c \in {shown.calls[k]} :
            c.vx # IClamp(shown.view.x0
                          + FRound(FMul(FromInt(c.x), InvS(fb, arg.rows, arg.cols))),
                          0, fb.w - 1)

====
